---------------------------- MODULE Spec2Model ----------------------------
(***************************************************************************)
(* Model of laspec/mrs.py: the iterative bad-pixel rejector debad, the     *)
(* MrsSpec record with its reduce pipeline, and the MrsEpoch records that  *)
(* MrsFits.get_one_epoch builds from the HDUs of a file.                   *)
(*                                                                         *)
(* Arrays are sequences (index 1 is numpy index 0).  Flux values are       *)
(* integers of a fixed-point grid.  The unit-sum Gaussian kernels are kept *)
(* as integer weights and every comparison is multiplied through by the    *)
(* kernel sums, so the filter arithmetic is exact; np.interp rounds its    *)
(* result to the grid.                                                     *)
(***************************************************************************)
EXTENDS Integers, Sequences, FiniteSets, TLC

VARIABLES
    wave,       \* the caller's wavelength array handed to debad
    flux,       \* the caller's flux array handed to debad
    fluxnorm,   \* debad's local name fluxnorm (rebound by every interpolation)
    indclip,    \* debad's cumulative outlier mask
    countiter,  \* debad's round counter
    nsigma,     \* <<nsigma[0], nsigma[1]>>
    mfarg,      \* median filter width
    gfarg,      \* <<length, std>> of the noise kernel
    maskconv,   \* mask dilation width
    maxiter,    \* iteration cap
    fluxres,    \* residuals of the current round
    fluxsigma,  \* noise scale of the current round
    indout,     \* outlier flags of the current round
    pc,         \* "filter", "clip", "returned", "RuntimeError", "ValueError",
                \* and for MrsSpec "constructed", "reduced"
    result,     \* the array debad returned, <<>> while there is none
    hist,       \* one record per round that accumulated its flags
    ms,         \* the MrsSpec whose reduce method is called (self)
    rargs,      \* the arguments of the reduce call in progress
    msr,        \* the MrsSpec that reduce returned
    mfits,      \* the MrsFits file: its HDU names, in file order
    epochs,     \* the MrsEpoch bound to each name of the calling script, or
                \* None
    MrsEpoch_norm_kwargs,   \* the dict bound to the class attribute
                            \* MrsEpoch.norm_kwargs
    given,      \* history: per name, the settings passed to its instance
    got,        \* the last get_one_epoch call and its outcome
    dbd         \* the arguments of the last flux_norm_dbd call, as bound by
                \* debad's signature

mrsvars == <<ms, rargs, msr>>

epochvars == <<mfits, epochs, MrsEpoch_norm_kwargs, given, got, dbd>>

vars == <<wave, flux, fluxnorm, indclip, countiter, nsigma, mfarg, gfarg,
          maskconv, maxiter, fluxres, fluxsigma, indout, pc, result, hist,
          ms, rargs, msr, mfits, epochs, MrsEpoch_norm_kwargs, given, got,
          dbd>>

-----------------------------------------------------------------------------
(* Bounds of the model *)

MinPix == 5
MaxPix == 6
MaxFlux == 2
MaxNsigma == 2
MaxMaxiter == 3
ReducePix == 52

-----------------------------------------------------------------------------
(* Helpers *)

Max(a, b) == IF a >= b THEN a ELSE b

Abs(a) == IF a < 0 THEN -a ELSE a

\* the array <<f[1], ..., f[n]>>, every element evaluated once
RECURSIVE ArrayRange(_, _, _)
ArrayRange(f, lo, hi) ==
    IF lo > hi THEN <<>>
    ELSE IF lo = hi THEN <<f[lo]>>
    ELSE ArrayRange(f, lo, (lo + hi) \div 2)
            \o ArrayRange(f, (lo + hi) \div 2 + 1, hi)

Array(f, n) == ArrayRange(f, 1, n)

RECURSIVE SumRange(_, _, _)
SumRange(f, lo, hi) ==
    IF lo > hi THEN 0
    ELSE IF lo = hi THEN f[lo]
    ELSE SumRange(f, lo, (lo + hi) \div 2)
            + SumRange(f, (lo + hi) \div 2 + 1, hi)

SumTo(f, n) == SumRange(f, 1, n)

\* np.sum of a numeric array
SumSeq(s) == SumTo(s, Len(s))

\* np.sum of a boolean array
CountTrue(b) == Cardinality({i \in DOMAIN b : b[i]})

\* a[idx] for a boolean index array idx of the same length
RECURSIVE CompressRange(_, _, _, _)
CompressRange(a, keep, lo, hi) ==
    IF lo > hi THEN <<>>
    ELSE IF lo = hi THEN (IF keep[lo] THEN <<a[lo]>> ELSE <<>>)
    ELSE CompressRange(a, keep, lo, (lo + hi) \div 2)
            \o CompressRange(a, keep, (lo + hi) \div 2 + 1, hi)

Compress(a, keep) == CompressRange(a, keep, 1, Len(a))

-----------------------------------------------------------------------------
(* Filtering primitives *)

\* scipy.signal.medfilt(x, k): median of the k-wide window centred on each
\* pixel, the array being padded with zeros.
MedfiltAt(x, k, i) ==
    LET h == k \div 2
        w == [j \in 1..k |-> IF (i - h - 1 + j) \in DOMAIN x
                             THEN x[i - h - 1 + j] ELSE 0]
    IN  CHOOSE v \in {w[j] : j \in 1..k} :
            /\ Cardinality({j \in 1..k : w[j] < v}) <= h
            /\ Cardinality({j \in 1..k : w[j] <= v}) >= h + 1

medfilt(x, k) == Array([i \in DOMAIN x |-> MedfiltAt(x, k, i)], Len(x))

\* np.convolve(a, v, "same"): the centred part, of length max(len a, len v),
\* of the full convolution (numpy swaps the operands so that the first one
\* is the longer).
ConvolveSame(a, v) ==
    LET long  == IF Len(v) > Len(a) THEN v ELSE a
        short == IF Len(v) > Len(a) THEN a ELSE v
        off   == (Len(short) - 1) \div 2
        Full(n) == SumTo([m \in 1..Len(short) |->
                      IF (n - m + 1) \in 1..Len(long)
                      THEN short[m] * long[n - m + 1] ELSE 0], Len(short))
    IN  Array([i \in 1..Len(long) |-> Full(i + off)], Len(long))

\* scipy.signal.windows.gaussian(5, 0.5) = exp(-2 n^2), n = -2..2, in units
\* of exp(-8); debad divides it by its sum.
TrendKernel == <<1, 403, 2981, 403, 1>>

\* scipy.signal.windows.gaussian(M, std) for the kernels of the model, in
\* units of 1/100.
gaussian(M, std) ==
    CASE M = 3 /\ std = 1 -> <<61, 100, 61>>
      [] M = 7 /\ std = 1 -> <<1, 14, 61, 100, 61, 14, 1>>
      [] M = 51 /\ std = 9 ->
            <<2, 3, 4, 5, 7, 8, 11, 14, 17, 21, 25, 30, 35, 41, 47, 54, 61,
              67, 74, 80, 86, 91, 95, 98, 99, 100, 99, 98, 95, 91, 86, 80,
              74, 67, 61, 54, 47, 41, 35, 30, 25, 21, 17, 14, 11, 8, 7, 5,
              4, 3, 2>>


-----------------------------------------------------------------------------
(* debad: the computations of one round *)

npix == Len(flux)

\* line 49: np.zeros_like(fluxnorm, dtype=bool)
zeros_like(a) == Array([i \in DOMAIN a |-> FALSE], Len(a))

\* lines 53-57: fluxmf, times SumSeq(TrendKernel)
Trend(f, width) == ConvolveSame(medfilt(f, width), TrendKernel)

\* line 59: fluxnorm - fluxmf, times SumSeq(TrendKernel)
Residual(f, mf) ==
    Array([i \in DOMAIN f |-> SumSeq(TrendKernel) * f[i] - mf[i]], Len(f))

\* lines 61-62
gk == gaussian(gfarg[1], gfarg[2])

\* line 63: np.convolve(np.abs(fluxres), gk, "same"), times
\* SumSeq(TrendKernel) * SumSeq(kernel)
NoiseScale(res, kernel) ==
    ConvolveSame(Array([i \in DOMAIN res |-> Abs(res[i])], Len(res)), kernel)

\* lines 59 and 65: numpy cannot broadcast two arrays of different lengths,
\* and a "same" convolution is as long as the longer operand
BroadcastError ==
    \/ Max(Len(fluxnorm), Len(TrendKernel)) # Len(fluxnorm)
    \/ Max(Len(fluxnorm), Len(gk)) # Len(fluxnorm)

\* lines 65-67: the clip test of one pixel; res is in units of
\* 1/SumSeq(TrendKernel), sig in units of 1/(SumSeq(TrendKernel) * wsum)
IsOutlier_Symmetric(res, sig, wsum, ns) == Abs(res) * wsum > sig * ns[1]

IsOutlier(res, sig, wsum, ns) ==
    \/ res * wsum > sig * ns[1]
    \/ res * wsum < -(sig * ns[2])

Outliers(res, sig, wsum, ns) ==
    Array([i \in DOMAIN res |-> IsOutlier(res[i], sig[i], wsum, ns)], Len(res))

MaskOr_Overwrite(a, b) == b

\* line 68: indclip |= indout
MaskOr(a, b) == Array([i \in DOMAIN a |-> a[i] \/ b[i]], Len(a))

TooManyBad_AtHalf(clip, n) == 2 * CountTrue(clip) >= n

TooManyBad_AboveTwoThirds(clip, n) == 3 * CountTrue(clip) > 2 * n

\* line 69: np.sum(indclip) > 0.5 * npix
TooManyBad(clip, n) == 2 * CountTrue(clip) > n

Finished_LateCap(out, count, cap) == CountTrue(out) = 0 \/ count > cap

Finished_CapOnly(out, count, cap) == count >= cap

\* line 72: np.sum(indout) == 0 or countiter >= maxiter
Finished(out, count, cap) == CountTrue(out) = 0 \/ count >= cap

Dilate_Trailing(out, width) ==
    Array([i \in DOMAIN out |->
              \E j \in DOMAIN out : out[j] /\ j <= i /\ i - j < width],
          Len(out))

\* line 75: np.convolve(indout * 1.0, np.ones((maskconv,)), "same") > 0
Dilate(out, width) ==
    LET ones == Array([j \in 1..width |-> 1], width)
        Conv(o) == ConvolveSame(
                     Array([i \in DOMAIN o |-> IF o[i] THEN 1 ELSE 0], Len(o)),
                     ones)
        Positive(c) == Array([i \in DOMAIN c |-> c[i] > 0], Len(c))
    IN  Positive(Conv(out))

\* np.interp(x, xp, fp) at one point x, for increasing xp: the end values
\* outside [xp[0], xp[-1]], fp[j] at x = xp[j], else the chord through the
\* two bracketing samples
InterpAt(x, xp, fp) ==
    LET below == {j \in DOMAIN xp : xp[j] <= x}
    IN  IF below = {} THEN fp[1]
        ELSE LET j == CHOOSE k \in below : \A l \in below : l <= k
             IN  IF j = Len(xp) THEN fp[j]
                 ELSE IF xp[j] = x THEN fp[j]
                 ELSE fp[j] + ((fp[j + 1] - fp[j]) * (x - xp[j]))
                                  \div (xp[j + 1] - xp[j])

interp(x, xp, fp) == Array([i \in DOMAIN x |-> InterpAt(x[i], xp, fp)], Len(x))

Not(b) == Array([i \in DOMAIN b |-> ~b[i]], Len(b))

Reinterpolate_ByIndex(w, f, dil) ==
    LET index == Array([i \in DOMAIN w |-> i], Len(w))
    IN  interp(index, Compress(index, Not(dil)), Compress(f, Not(dil)))

\* line 76: np.interp(wave, wave[~indout], fluxnorm[~indout])
Reinterpolate(w, f, dil) ==
    interp(w, Compress(w, Not(dil)), Compress(f, Not(dil)))

\* the record of a round that accumulated its flags
RoundRecord(clip, dil, after) ==
    [res |-> fluxres, sig |-> fluxsigma, wsum |-> SumSeq(gk),
     out |-> indout, clipBefore |-> indclip, clipAfter |-> clip,
     fluxBefore |-> fluxnorm, dilated |-> dil, fluxAfter |-> after]

-----------------------------------------------------------------------------
(* debad: the filter step of a round, then one action per way the round    *)
(* can end                                                                 *)

\* lines 59/65 raise ValueError: a kernel longer than the array makes the
\* "same" convolution longer than fluxnorm
DebadBroadcastError ==
    /\ pc = "filter"
    /\ BroadcastError
    /\ pc' = "ValueError"
    /\ UNCHANGED epochvars
    /\ UNCHANGED <<ms, rargs, msr, wave, flux, fluxnorm, indclip, countiter,
                   nsigma, mfarg, gfarg, maskconv, maxiter, fluxres,
                   fluxsigma, indout, result, hist>>

\* lines 53-67: trend, residuals, noise scale and this round's flags
DebadFilter ==
    /\ pc = "filter"
    /\ ~BroadcastError
    /\ \E res \in {Residual(fluxnorm, Trend(fluxnorm, mfarg))} :
       \E sig \in {NoiseScale(res, gk)} :
          /\ fluxres' = res
          /\ fluxsigma' = sig
          /\ indout' = Outliers(res, sig, SumSeq(gk), nsigma)
    /\ pc' = "clip"
    /\ UNCHANGED epochvars
    /\ UNCHANGED <<ms, rargs, msr, wave, flux, fluxnorm, indclip, countiter,
                   nsigma, mfarg, gfarg, maskconv, maxiter, result, hist>>

\* lines 68-70: raise RuntimeError("Too many bad pixels!")
DebadTooManyBad ==
    /\ pc = "clip"
    /\ indclip' = MaskOr(indclip, indout)
    /\ TooManyBad(indclip', npix)
    /\ pc' = "RuntimeError"
    /\ hist' = Append(hist, RoundRecord(indclip', <<>>, <<>>))
    /\ UNCHANGED epochvars
    /\ UNCHANGED <<ms, rargs, msr, wave, flux, fluxnorm, countiter, nsigma,
                   mfarg, gfarg, maskconv, maxiter, fluxres, fluxsigma,
                   indout, result>>

DebadReturn_Interpolated ==
    /\ pc = "clip"
    /\ indclip' = MaskOr(indclip, indout)
    /\ ~TooManyBad(indclip', npix)
    /\ countiter' = countiter + 1
    /\ Finished(indout, countiter', maxiter)
    /\ pc' = "returned"
    /\ result' = IF CountTrue(Not(Dilate(indout, maskconv))) > 0
                 THEN Reinterpolate(wave, fluxnorm, Dilate(indout, maskconv))
                 ELSE fluxnorm
    /\ hist' = Append(hist, RoundRecord(indclip', <<>>, <<>>))
    /\ UNCHANGED epochvars
    /\ UNCHANGED <<ms, rargs, msr, wave, flux, fluxnorm, nsigma, mfarg, gfarg,
                   maskconv, maxiter, fluxres, fluxsigma, indout>>

\* lines 68-73: return fluxnorm
DebadReturn ==
    /\ pc = "clip"
    /\ indclip' = MaskOr(indclip, indout)
    /\ ~TooManyBad(indclip', npix)
    /\ countiter' = countiter + 1
    /\ Finished(indout, countiter', maxiter)
    /\ pc' = "returned"
    /\ result' = fluxnorm
    /\ hist' = Append(hist, RoundRecord(indclip', <<>>, <<>>))
    /\ UNCHANGED epochvars
    /\ UNCHANGED <<ms, rargs, msr, wave, flux, fluxnorm, nsigma, mfarg, gfarg,
                   maskconv, maxiter, fluxres, fluxsigma, indout>>

\* lines 74-76 when ~indout selects no pixel: np.interp raises ValueError
\* ("array of sample points is empty")
DebadInterpError ==
    /\ pc = "clip"
    /\ indclip' = MaskOr(indclip, indout)
    /\ ~TooManyBad(indclip', npix)
    /\ countiter' = countiter + 1
    /\ ~Finished(indout, countiter', maxiter)
    /\ CountTrue(Not(Dilate(indout, maskconv))) = 0
    /\ pc' = "ValueError"
    /\ hist' = Append(hist, RoundRecord(indclip', Dilate(indout, maskconv), <<>>))
    /\ UNCHANGED epochvars
    /\ UNCHANGED <<ms, rargs, msr, wave, flux, fluxnorm, nsigma, mfarg, gfarg,
                   maskconv, maxiter, fluxres, fluxsigma, indout, result>>

DebadContinue_InPlace ==
    /\ pc = "clip"
    /\ indclip' = MaskOr(indclip, indout)
    /\ ~TooManyBad(indclip', npix)
    /\ countiter' = countiter + 1
    /\ ~Finished(indout, countiter', maxiter)
    /\ CountTrue(Not(Dilate(indout, maskconv))) > 0
    /\ fluxnorm' = Reinterpolate(wave, fluxnorm, Dilate(indout, maskconv))
    /\ flux' = fluxnorm'
    /\ pc' = "filter"
    /\ hist' = Append(hist, RoundRecord(indclip', Dilate(indout, maskconv),
                                        fluxnorm'))
    /\ UNCHANGED epochvars
    /\ UNCHANGED <<ms, rargs, msr, wave, nsigma, mfarg, gfarg, maskconv,
                   maxiter, fluxres, fluxsigma, indout, result>>

\* lines 74-76: dilate this round's flags, interpolate over them and loop
DebadContinue ==
    /\ pc = "clip"
    /\ indclip' = MaskOr(indclip, indout)
    /\ ~TooManyBad(indclip', npix)
    /\ countiter' = countiter + 1
    /\ ~Finished(indout, countiter', maxiter)
    /\ CountTrue(Not(Dilate(indout, maskconv))) > 0
    /\ fluxnorm' = Reinterpolate(wave, fluxnorm, Dilate(indout, maskconv))
    /\ pc' = "filter"
    /\ hist' = Append(hist, RoundRecord(indclip', Dilate(indout, maskconv),
                                        fluxnorm'))
    /\ UNCHANGED epochvars
    /\ UNCHANGED <<ms, rargs, msr, wave, flux, nsigma, mfarg, gfarg, maskconv,
                   maxiter, fluxres, fluxsigma, indout, result>>

-----------------------------------------------------------------------------
(* MrsSpec: construction and the pieces of reduce.  A populated spectrum   *)
(* is built with norm_type=None and reduce is called with norm_type=None   *)
(* and rv=0, so the external normalizer is never entered.  A boolean mask  *)
(* is kept as 0/1, ivar takes the values 0 and 1.                          *)

\* an optional argument: None, or a value
None == [some |-> FALSE]

Some(v) == [some |-> TRUE, val |-> v]

\* line 200: np.nan
NaN == -1

\* lines 199-200: ivar ** -0.5, non-finite values replaced by nan
FluxErrOf(iv) == IF iv = 1 THEN 1 ELSE NaN

\* line 495: flux_err ** -2
IvarOf(fe) == IF fe = NaN THEN NaN ELSE 1

\* lines 150-213: MrsSpec(wave, flux, ivar, mask, norm_type=None); a dict is
\* the set of its <<key, value>> items
MrsSpecInit(w, f, iv, mk) ==
    LET populated == w.some /\ f.some
        swave == IF populated THEN w.val ELSE <<>>
        sflux == IF populated THEN f.val ELSE <<>>
        sivar == IF iv.some THEN iv.val
                 ELSE Array([i \in DOMAIN sflux |-> 1], Len(sflux))
        smask == IF mk.some THEN mk.val
                 ELSE Array([i \in DOMAIN sflux |-> 0], Len(sflux))
    IN  [wave |-> swave, flux |-> sflux, ivar |-> sivar, mask |-> smask,
         npix_bad |-> Cardinality({i \in DOMAIN smask : smask[i] > 0}),
         flux_err |-> Array([i \in DOMAIN sivar |-> FluxErrOf(sivar[i])],
                            Len(sivar)),
         indcr |-> <<>>, isempty |-> ~populated,
         norm_type |-> "None", norm_kwargs |-> {},
         flux_norm |-> <<>>, flux_cont |-> <<>>, ivar_norm |-> <<>>,
         flux_norm_err |-> <<>>]

\* a[start:stop] of Python, start and stop counted from the end when negative
PySlice(a, start, stop) ==
    LET Norm(k) == IF k < 0 THEN Max(k + Len(a), 0)
                   ELSE IF k > Len(a) THEN Len(a) ELSE k
    IN  SubSeq(a, Norm(start) + 1, Norm(stop))

\* lines 454-459
npix0(self, args) == IF args.npix_cushion > 0 THEN args.npix_cushion ELSE 0

npix1(self, args) ==
    IF args.npix_cushion > 0 THEN -args.npix_cushion ELSE Len(self.wave)

\* a[npix0:npix1]
Cut(self, args, a) == PySlice(a, npix0(self, args), npix1(self, args))

FloorAtZero_Unfloored(f) == f

\* lines 467 and 474: np.where(flux > 0, flux, 0.0)
FloorAtZero(f) == Array([i \in DOMAIN f |-> IF f[i] > 0 THEN f[i] ELSE 0], Len(f))

\* line 471: (np.abs(flux_obs - self.flux[npix0:npix1]) > 1e-5) * 1; one step
\* of the flux grid is more than 1e-5
CosmicRayIndex(flux_obs, orig) ==
    Array([i \in DOMAIN flux_obs |->
              IF Abs(flux_obs[i] - orig[i]) > 0 THEN 1 ELSE 0], Len(flux_obs))

\* lines 479-486: the target grid
TargetGrid(wave_new, wave_obsz0) ==
    IF ~wave_new.some THEN wave_obsz0
    ELSE IF Len(wave_new.val) = 2
         THEN Compress(wave_obsz0,
                       Array([i \in DOMAIN wave_obsz0 |->
                                 /\ wave_obsz0[i] > wave_new.val[1]
                                 /\ wave_obsz0[i] < wave_new.val[2]],
                             Len(wave_obsz0)))
         ELSE wave_new.val

\* line 489: np.interp of an array that may hold nan
InterpNaNAt(x, xp, fp) ==
    LET below == {j \in DOMAIN xp : xp[j] <= x}
    IN  IF below = {} THEN fp[1]
        ELSE LET j == CHOOSE k \in below : \A l \in below : l <= k
             IN  IF j = Len(xp) THEN fp[j]
                 ELSE IF xp[j] = x THEN fp[j]
                 ELSE IF fp[j] = NaN \/ fp[j + 1] = NaN THEN NaN
                 ELSE fp[j] + ((fp[j + 1] - fp[j]) * (x - xp[j]))
                                  \div (xp[j + 1] - xp[j])

ResampleErr(x, xp, fe) ==
    Array([i \in DOMAIN x |-> InterpNaNAt(x[i], xp, fe)], Len(x))

\* np.interp(x, xp, fp) > 0 at one point, without rounding
InterpPositiveAt(x, xp, fp) ==
    LET below == {j \in DOMAIN xp : xp[j] <= x}
    IN  IF below = {} THEN fp[1] > 0
        ELSE LET j == CHOOSE k \in below : \A l \in below : l <= k
             IN  IF j = Len(xp) THEN fp[j] > 0
                 ELSE IF xp[j] = x THEN fp[j] > 0
                 ELSE fp[j] * (xp[j + 1] - xp[j])
                         + (fp[j + 1] - fp[j]) * (x - xp[j]) > 0

ResampleMask_Unsampled(x, xp, mask, indcr) ==
    Array([i \in DOMAIN mask |-> IF mask[i] \/ indcr[i] > 0 THEN 1 ELSE 0],
          Len(mask))

\* line 490: 1 * (np.interp(wave_new, wave_obsz0, mask | indcr) > 0)
ResampleMask(x, xp, mask, indcr) ==
    LET either == Array([i \in DOMAIN mask |->
                            IF mask[i] \/ indcr[i] > 0 THEN 1 ELSE 0],
                        Len(mask))
    IN  Array([i \in DOMAIN x |->
                  IF InterpPositiveAt(x[i], xp, either) THEN 1 ELSE 0], Len(x))

\* lines 462-464, 471-530 with norm_type=None: the spectrum reduce returns
\* for the flux flux_obs and the cosmic-ray index indcr
Reduced(self, args, flux_obs, indcr) ==
    LET wave_obs == Cut(self, args, self.wave)
        flux_err == Cut(self, args, self.flux_err)
        cut      == Cut(self, args, self.mask)
        mask     == Array([i \in DOMAIN cut |-> cut[i] > 0], Len(cut))
        wave_new == TargetGrid(args.wave_new, wave_obs)
        new_err  == ResampleErr(wave_new, wave_obs, flux_err)
    IN  [MrsSpecInit(None, None, None, None) EXCEPT
            !.wave = wave_new,
            !.flux = interp(wave_new, wave_obs, flux_obs),
            !.ivar = Array([i \in DOMAIN new_err |-> IvarOf(new_err[i])],
                           Len(new_err)),
            !.flux_err = new_err,
            !.mask = ResampleMask(wave_new, wave_obs, mask, indcr),
            !.npix_bad = self.npix_bad,
            !.indcr = indcr,
            !.isempty = self.isempty,
            !.norm_type = "spline"]

\* no reduce call in progress
NoCall == [active |-> FALSE]

-----------------------------------------------------------------------------
(* Keyword settings, MrsSpec.normalize, MrsEpoch and MrsFits.  A dict is   *)
(* the set of its <<key, value>> items.  A Python value whose type matters *)
(* is a record that carries the type.                                      *)

Keys(d) == {item[1] : item \in d}

\* dict.update(u)
Update(d, u) == {item \in d : item[1] \notin Keys(u)} \cup u

PyStr(s) == [type |-> "str", str |-> s, int |-> 0]

PyInt(n) == [type |-> "int", str |-> "", int |-> n]

\* laspec.normalization.normalize_spectrum_general(wave, flux, norm_type,
\* **norm_kwargs): flux_norm and flux_cont of the length of flux, the
\* continuum non-zero
normalize_spectrum_general(w, f, norm_type, norm_kwargs) ==
    [flux_norm |-> f, flux_cont |-> Array([i \in DOMAIN f |-> 1], Len(f))]

\* lines 335-369: MrsSpec.normalize(llim, norm_type, **norm_kwargs)
MrsSpecNormalize(self, llim, norm_type, norm_kwargs) ==
    LET kw      == Update(self.norm_kwargs, norm_kwargs)
        floored == Array([i \in DOMAIN self.flux |->
                             IF self.flux[i] < llim THEN llim
                             ELSE self.flux[i]], Len(self.flux))
        nrm     == normalize_spectrum_general(self.wave, floored, norm_type, kw)
        cont    == nrm.flux_cont
    IN  IF ~self.isempty /\ norm_type # "None"
        THEN [self EXCEPT
                 !.norm_type = norm_type,
                 !.norm_kwargs = kw,
                 !.flux_norm = nrm.flux_norm,
                 !.flux_cont = cont,
                 !.ivar_norm = Array([i \in DOMAIN self.ivar |->
                                         self.ivar[i] * cont[i] * cont[i]],
                                     Len(self.ivar)),
                 !.flux_norm_err = Array([i \in DOMAIN self.flux_err |->
                                             IF self.flux_err[i] = NaN THEN NaN
                                             ELSE self.flux_err[i] \div cont[i]],
                                         Len(self.flux_err))]
        ELSE [self EXCEPT
                 !.norm_type = IF self.isempty THEN @ ELSE norm_type,
                 !.norm_kwargs = kw,
                 !.flux_norm = <<>>,
                 !.flux_cont = <<>>,
                 !.ivar_norm = <<>>,
                 !.flux_norm_err = <<>>]

\* lines 150-213: MrsSpec(wave, flux, ivar, mask, norm_type=norm_type,
\* **norm_kwargs); the ** dict of a call is a new dict
MrsSpecNew(w, f, iv, mk, norm_type, norm_kwargs) ==
    LET self == [MrsSpecInit(w, f, iv, mk) EXCEPT
                    !.norm_type = norm_type, !.norm_kwargs = norm_kwargs]
    IN  IF norm_type \in {"poly", "spline"}
        THEN MrsSpecNormalize(self, 0, norm_type, norm_kwargs)
        ELSE self

\* lines 662-671: self.wave = np.array([], dtype=float), and so on
ResetCombined_Kept(a) == a

ResetCombined(a) == <<>>

\* lines 674-694: np.append of the attribute of every spectrum that is not
\* empty, in speclist order
RECURSIVE AppendEach(_, _, _, _)
AppendEach(a, speclist, attr, n) ==
    IF n = 0 THEN a
    ELSE LET before == AppendEach(a, speclist, attr, n - 1)
         IN  IF speclist[n].isempty THEN before
             ELSE before \o speclist[n][attr]

\* lines 617-696: MrsEpoch.normalize(llim, norm_type, **norm_kwargs), where
\* self.norm_kwargs is the dict cls of the class attribute (no instance
\* attribute of that name is ever assigned); the per-band attributes
\* wave_B, ... name the arrays of the member spectra
MrsEpochNormalize(self, cls, llim, norm_type, norm_kwargs) ==
    LET kw       == Update(cls, norm_kwargs)
        speclist == [i \in 1..self.nspec |->
                        MrsSpecNormalize(self.speclist[i], llim, norm_type, kw)]
        All(attr) == AppendEach(ResetCombined(self[attr]), speclist, attr,
                                self.nspec)
    IN  [norm_kwargs |-> kw,
         self |-> [self EXCEPT
                      !.speclist = speclist,
                      !.wave = All("wave"),
                      !.flux = All("flux"),
                      !.ivar = All("ivar"),
                      !.mask = All("mask"),
                      !.flux_err = All("flux_err"),
                      !.flux_norm = All("flux_norm"),
                      !.ivar_norm = All("ivar_norm"),
                      !.flux_cont = All("flux_cont"),
                      !.flux_norm_err = All("flux_norm_err")]]

\* lines 574-609: MrsEpoch(speclist, epoch=epoch, norm_type=norm_type,
\* **norm_kwargs) when the class dict is cls
MrsEpochInit(speclist, epoch, norm_type, norm_kwargs, cls) ==
    LET self == [epoch |-> epoch, nspec |-> Len(speclist),
                 speclist |-> speclist,
                 wave |-> <<>>, flux |-> <<>>, ivar |-> <<>>, mask |-> <<>>,
                 flux_err |-> <<>>, flux_norm |-> <<>>, ivar_norm |-> <<>>,
                 flux_cont |-> <<>>, flux_norm_err |-> <<>>]
    IN  MrsEpochNormalize(self, Update(cls, norm_kwargs), 0, norm_type,
                          norm_kwargs)

\* an HDU name: "B-<lmjm>" and "R-<lmjm>" are the head "B-"/"R-" and the
\* integer written after it, every other name is its head alone
HduName(head, tail) == [head |-> head, tail |-> tail]

\* lines 828-849: self.lmjm
MrsFitsLmjm(hdunames) ==
    [i \in DOMAIN hdunames |->
        IF hdunames[i].head \in {"B-", "R-"} THEN hdunames[i].tail ELSE 0]

\* the spectrum table of an HDU: two pixels in the blue band, three in the red
HduTable(name) ==
    IF name.head \in {"B-", "COADD_B"}
    THEN [wave |-> <<1, 4>>, flux |-> <<2, 1>>]
    ELSE [wave |-> <<9, 16, 25>>, flux |-> <<1, 2, 0>>]

\* lines 219-270: MrsSpec.from_hdu(hdu, norm_type=norm_type, **norm_kwargs)
from_hdu(name, norm_type, norm_kwargs) ==
    IF name.head = "Information"
    THEN MrsSpecNew(None, None, None, None, "spline", {})
    ELSE LET t == HduTable(name)
         IN  MrsSpecNew(Some(t.wave), Some(t.flux),
                        Some(Array([i \in DOMAIN t.flux |-> 1], Len(t.flux))),
                        Some(Array([i \in DOMAIN t.flux |-> 0], Len(t.flux))),
                        norm_type, norm_kwargs)

\* lines 885-893: the assertions of get_one_epoch pass
LmjmFound(lmjm, hdunames) ==
    /\ lmjm.type = "str" => lmjm.str = "COADD"
    /\ lmjm.type = "int" =>
          \E i \in DOMAIN hdunames : MrsFitsLmjm(hdunames)[i] = lmjm.int

\* lines 895-917: the epoch get_one_epoch builds once lmjm is accepted
OneEpoch(hdunames, lmjm, norm_type, norm_kwargs, cls) ==
    LET kB == IF lmjm = PyStr("COADD") THEN HduName("COADD_B", 0)
              ELSE HduName("B-", lmjm.int)
        kR == IF lmjm = PyStr("COADD") THEN HduName("COADD_R", 0)
              ELSE HduName("R-", lmjm.int)
        Has(k) == \E i \in DOMAIN hdunames : hdunames[i] = k
        msB == IF Has(kB) THEN from_hdu(kB, norm_type, norm_kwargs)
               ELSE MrsSpecNew(None, None, None, None, norm_type, norm_kwargs)
        msR == IF Has(kR) THEN from_hdu(kR, norm_type, norm_kwargs)
               ELSE MrsSpecNew(None, None, None, None, norm_type, norm_kwargs)
    IN  MrsEpochInit(<<msB, msR>>, lmjm, norm_type, norm_kwargs, cls)

\* no call made yet
NoOutcome == [call |-> "", lmjm |-> PyStr(""), self |-> "", outcome |-> ""]

\* the names the calling script binds epochs to
EpochNames == {"me", "other"}

\* nothing of MrsEpoch or MrsFits is in use
EpochIdle ==
    /\ mfits = <<>>
    /\ epochs = [name \in EpochNames |-> None]
    /\ MrsEpoch_norm_kwargs = {}
    /\ given = [name \in EpochNames |-> {}]
    /\ got = NoOutcome
    /\ dbd = NoCall

-----------------------------------------------------------------------------
(* A direct call debad(wave, fluxnorm, nsigma, mfarg, gfarg, maskconv,     *)
(* maxiter) on inputs that meet the documented preconditions               *)

\* a strictly increasing, unevenly sampled wavelength grid
WaveGrid(n) == Array([i \in 1..n |-> i * i], n)

Init ==
    /\ \E n \in MinPix..MaxPix :
          /\ wave = WaveGrid(n)
          /\ flux \in [1..n -> 0..MaxFlux]
    /\ fluxnorm = flux
    /\ indclip = zeros_like(flux)
    /\ countiter = 0
    /\ nsigma \in (1..MaxNsigma) \X (1..MaxNsigma)
    /\ mfarg \in {3, 5}
    /\ gfarg \in {<<3, 1>>, <<7, 1>>}
    /\ maskconv \in {3, 5}
    /\ maxiter \in 1..MaxMaxiter
    /\ fluxres = <<>>
    /\ fluxsigma = <<>>
    /\ indout = <<>>
    /\ pc = "filter"
    /\ result = <<>>
    /\ hist = <<>>
    /\ ms = MrsSpecInit(None, None, None, None)
    /\ rargs = NoCall
    /\ msr = MrsSpecInit(None, None, None, None)
    /\ EpochIdle

Next ==
    \/ DebadBroadcastError
    \/ DebadFilter
    \/ DebadTooManyBad
    \/ DebadReturn
    \/ DebadInterpError
    \/ DebadContinue

Spec == Init /\ [][Next]_vars

-----------------------------------------------------------------------------
(* MrsSpec.reduce on a populated spectrum *)

\* the spectra of the model: a flat continuum with up to two deviating
\* pixels, and spectra without signal
SpikePositions == {1, 26, 27, ReducePix}

SpikeValues == {-1, 9}

Continuum == 2

\* a spectrum without signal: zero flux, one pixel below zero
DarkFluxes ==
    {[i \in 1..ReducePix |-> IF i = p THEN -1 ELSE 0] : p \in {26, ReducePix}}

SpecFluxes ==
    {[i \in 1..ReducePix |->
         IF i = p THEN a ELSE IF i = q THEN b ELSE Continuum] :
        p \in SpikePositions, q \in SpikePositions,
        a \in SpikeValues \cup {Continuum}, b \in SpikeValues \cup {Continuum}}
    \cup DarkFluxes

\* ivar and mask: both omitted, or both given
SpecIvarMasks ==
    {<<None, None>>,
     <<Some([i \in 1..ReducePix |-> IF i = 3 THEN 0 ELSE 1]),
       Some([i \in 1..ReducePix |-> IF i = 2 THEN 1 ELSE 0])>>}

\* wave_new: absent, a range, a range holding no pixel, a full grid
WaveNews ==
    {None, Some(<<20, 700>>), Some(<<5, 8>>), Some(<<30, 100, 1000, 2000>>)}

ReduceArgs ==
    [active : {TRUE}, wave_new : WaveNews, npix_cushion : {0, 3},
     cr : BOOLEAN]

InitReduce ==
    /\ \E f \in SpecFluxes, im \in SpecIvarMasks :
          ms = MrsSpecInit(Some(WaveGrid(ReducePix)), Some(f), im[1], im[2])
    /\ rargs = NoCall
    /\ msr = MrsSpecInit(None, None, None, None)
    /\ EpochIdle
    /\ pc = "constructed"
    /\ wave = <<>>
    /\ flux = <<>>
    /\ fluxnorm = <<>>
    /\ indclip = <<>>
    /\ countiter = 0
    /\ nsigma = <<4, 8>>
    /\ mfarg = 21
    /\ gfarg = <<51, 9>>
    /\ maskconv = 7
    /\ maxiter = 5
    /\ fluxres = <<>>
    /\ fluxsigma = <<>>
    /\ indout = <<>>
    /\ result = <<>>
    /\ hist = <<>>

\* lines 453-468 with cr true: debad(self.wave, flux_obs, nsigma=nsigma,
\* maxiter=maxiter), the other arguments of debad at their defaults
ReduceCallDebad ==
    /\ pc = "constructed"
    /\ \E args \in ReduceArgs :
          /\ args.cr
          /\ rargs' = args
    /\ wave' = ms.wave
    /\ flux' = FloorAtZero(ms.flux)
    /\ fluxnorm' = flux'
    /\ indclip' = zeros_like(flux')
    /\ countiter' = 0
    /\ pc' = "filter"
    /\ UNCHANGED epochvars
    /\ UNCHANGED <<ms, msr, nsigma, mfarg, gfarg, maskconv, maxiter, fluxres,
                   fluxsigma, indout, result, hist>>

\* lines 468-471 and 477-530: debad returned
ReduceAfterDebad ==
    /\ pc = "returned"
    /\ rargs.active
    /\ msr' = Reduced(ms, rargs, Cut(ms, rargs, result),
                      CosmicRayIndex(Cut(ms, rargs, result),
                                     Cut(ms, rargs, ms.flux)))
    /\ pc' = "reduced"
    /\ UNCHANGED epochvars
    /\ UNCHANGED <<ms, rargs, wave, flux, fluxnorm, indclip, countiter,
                   nsigma, mfarg, gfarg, maskconv, maxiter, fluxres,
                   fluxsigma, indout, result, hist>>

\* lines 453-464 and 472-530 with cr false
ReduceWithoutDebad ==
    /\ pc = "constructed"
    /\ \E args \in ReduceArgs :
          /\ ~args.cr
          /\ rargs' = args
          /\ msr' = Reduced(ms, args, FloorAtZero(Cut(ms, args, ms.flux)),
                            Array([i \in DOMAIN Cut(ms, args, ms.flux) |-> 0],
                                  Len(Cut(ms, args, ms.flux))))
    /\ pc' = "reduced"
    /\ UNCHANGED epochvars
    /\ UNCHANGED <<ms, wave, flux, fluxnorm, indclip, countiter, nsigma,
                   mfarg, gfarg, maskconv, maxiter, fluxres, fluxsigma,
                   indout, result, hist>>

NextReduce ==
    \/ ReduceCallDebad
    \/ DebadFilter
    \/ DebadReturn
    \/ DebadContinue
    \/ ReduceAfterDebad
    \/ ReduceWithoutDebad

SpecReduce == InitReduce /\ [][NextReduce]_vars

-----------------------------------------------------------------------------
(* MrsFits.get_one_epoch on one file, MrsEpoch.normalize on the epochs it  *)
(* returned                                                                *)

MaxLmjm == 2

MaxSetting == 2

Info == HduName("Information", 0)

\* the file of the model, which the constructor accepts: the coadded
\* spectrum has the blue band only, epoch 1 both bands, epoch 2 the red
\* band only
Files ==
    {<<Info, HduName("COADD_B", 0), HduName("B-", 1), HduName("R-", 1),
       HduName("R-", 2)>>}

\* the lmjm arguments of the model
Lmjms == {PyStr("COADD"), PyStr("B-1")} \cup {PyInt(n) : n \in 0..MaxLmjm}

NormTypes == {"None", "spline"}

\* the normalization settings of the model
NormKwargs ==
    {{}, {<<"deg", 1>>}} \cup {{<<"niter", v>>} : v \in 1..MaxSetting}

InitEpoch ==
    /\ mfits \in Files
    /\ epochs = [name \in EpochNames |-> None]
    /\ MrsEpoch_norm_kwargs = {}
    /\ given = [name \in EpochNames |-> {}]
    /\ got = NoOutcome
    /\ dbd = NoCall
    /\ ms = MrsSpecInit(None, None, None, None)
    /\ rargs = NoCall
    /\ msr = MrsSpecInit(None, None, None, None)
    /\ pc = "idle"
    /\ wave = <<>>
    /\ flux = <<>>
    /\ fluxnorm = <<>>
    /\ indclip = <<>>
    /\ countiter = 0
    /\ nsigma = <<4, 8>>
    /\ mfarg = 21
    /\ gfarg = <<51, 9>>
    /\ maskconv = 7
    /\ maxiter = 3
    /\ fluxres = <<>>
    /\ fluxsigma = <<>>
    /\ indout = <<>>
    /\ result = <<>>
    /\ hist = <<>>

debadvars == <<wave, flux, fluxnorm, indclip, countiter, nsigma, mfarg, gfarg,
               maskconv, maxiter, fluxres, fluxsigma, indout, pc, result,
               hist>>

\* lines 885-893: raise AssertionError
GetOneEpochAssertionError ==
    /\ pc \notin {"filter", "clip"}
    /\ \E lmjm \in Lmjms :
          /\ ~LmjmFound(lmjm, mfits)
          /\ got' = [call |-> "get_one_epoch", lmjm |-> lmjm, self |-> "",
                     outcome |-> "AssertionError"]
    /\ UNCHANGED <<mfits, epochs, MrsEpoch_norm_kwargs, given, dbd>>
    /\ UNCHANGED mrsvars
    /\ UNCHANGED debadvars

\* lines 883-940: name = mfits.get_one_epoch(lmjm, norm_type=norm_type,
\* **norm_kwargs) returns an MrsEpoch
GetOneEpoch ==
    /\ pc \notin {"filter", "clip"}
    /\ \E name \in EpochNames, lmjm \in Lmjms, norm_type \in NormTypes,
          norm_kwargs \in NormKwargs :
          /\ ~epochs[name].some
          /\ LmjmFound(lmjm, mfits)
          /\ \E me \in {OneEpoch(mfits, lmjm, norm_type, norm_kwargs,
                                 MrsEpoch_norm_kwargs)} :
                /\ epochs' = [epochs EXCEPT ![name] = Some(me.self)]
                /\ MrsEpoch_norm_kwargs' = me.norm_kwargs
          /\ given' = [given EXCEPT ![name] = norm_kwargs]
          /\ got' = [call |-> "get_one_epoch", lmjm |-> lmjm, self |-> name,
                     outcome |-> "MrsEpoch"]
    /\ UNCHANGED <<mfits, dbd>>
    /\ UNCHANGED mrsvars
    /\ UNCHANGED debadvars

\* lines 617-696: name.normalize(norm_type=norm_type, **norm_kwargs)
EpochNormalize ==
    /\ pc \notin {"filter", "clip"}
    /\ \E name \in EpochNames, norm_type \in NormTypes,
          norm_kwargs \in NormKwargs :
          /\ epochs[name].some
          /\ \E me \in {MrsEpochNormalize(epochs[name].val,
                                          MrsEpoch_norm_kwargs, 0, norm_type,
                                          norm_kwargs)} :
                /\ epochs' = [epochs EXCEPT ![name] = Some(me.self)]
                /\ MrsEpoch_norm_kwargs' = me.norm_kwargs
          /\ given' = [given EXCEPT ![name] = Update(@, norm_kwargs)]
          /\ got' = [call |-> "normalize", lmjm |-> epochs[name].val.epoch,
                     self |-> name, outcome |-> "None"]
    /\ UNCHANGED <<mfits, dbd>>
    /\ UNCHANGED mrsvars
    /\ UNCHANGED debadvars

NextEpoch ==
    \/ GetOneEpoch
    \/ EpochNormalize

SpecEpoch == InitEpoch /\ [][NextEpoch]_vars

-----------------------------------------------------------------------------
(* MrsEpoch.flux_norm_dbd on the epochs of a file.  An argument of the     *)
(* debad call is a string or a number (a scalar is a one-element tuple); a  *)
(* keyword dict is the sequence of its <<key, value>> items in insertion   *)
(* order.                                                                  *)

StrArg(s) == [kind |-> "str", str |-> s, num |-> <<>>]

NumArg(v) == [kind |-> "num", str |-> "", num |-> v]

\* lines 23-25: the parameters of debad after wave and fluxnorm, and their
\* defaults
DebadParams == <<"nsigma", "mfarg", "gfarg", "maskconv", "maxiter">>

DebadDefaults ==
    [nsigma |-> NumArg(<<4, 8>>), mfarg |-> NumArg(<<21>>),
     gfarg |-> NumArg(<<51, 9>>), maskconv |-> NumArg(<<7>>),
     maxiter |-> NumArg(<<3>>)]

\* debad(wave, fluxnorm, *args): the parameters as Python binds them
BindPositional(args) ==
    [p \in {DebadParams[i] : i \in DOMAIN DebadParams} |->
        LET i == CHOOSE j \in DOMAIN DebadParams : DebadParams[j] = p
        IN  IF i <= Len(args) THEN args[i] ELSE DebadDefaults[p]]

\* line 714: *kwargs unpacks the dict by iteration, which yields its keys
StarArgs(kwargs) == [i \in DOMAIN kwargs |-> StrArg(kwargs[i][1])]

\* the keyword settings of the model's flux_norm_dbd calls
DbdKwargs ==
    {<<>>,
     <<<<"maxiter", NumArg(<<2>>)>>>>,
     <<<<"nsigma", NumArg(<<3, 6>>)>>, <<"mfarg", NumArg(<<3>>)>>>>,
     <<<<"gfarg", NumArg(<<3, 1>>)>>, <<"maskconv", NumArg(<<3>>)>>>>}

\* lines 712-714: name.flux_norm_dbd(**kwargs) of a normalized epoch, every
\* parameter of debad bound to a number: debad starts
FluxNormDbd ==
    /\ pc \notin {"filter", "clip"}
    /\ \E name \in EpochNames, kwargs \in DbdKwargs :
          /\ epochs[name].some
          /\ epochs[name].val.flux_norm # <<>>
          /\ \E bound \in {BindPositional(StarArgs(kwargs))} :
                /\ \A p \in DOMAIN bound : bound[p].kind = "num"
                /\ dbd' = [active |-> TRUE, self |-> name, kwargs |-> kwargs,
                           bound |-> bound]
                /\ nsigma' = bound.nsigma.num
                /\ mfarg' = bound.mfarg.num[1]
                /\ gfarg' = bound.gfarg.num
                /\ maskconv' = bound.maskconv.num[1]
                /\ maxiter' = bound.maxiter.num[1]
          /\ wave' = epochs[name].val.wave
          /\ flux' = epochs[name].val.flux_norm
    /\ fluxnorm' = flux'
    /\ indclip' = zeros_like(flux')
    /\ countiter' = 0
    /\ pc' = "filter"
    /\ fluxres' = <<>>
    /\ fluxsigma' = <<>>
    /\ indout' = <<>>
    /\ result' = <<>>
    /\ hist' = <<>>
    /\ UNCHANGED <<mfits, epochs, MrsEpoch_norm_kwargs, given, got>>
    /\ UNCHANGED mrsvars

\* lines 712-714, 53 and 65-66: a parameter of debad is bound to a string;
\* medfilt (mfarg) or the product fluxsigma * nsigma[0] raises TypeError
FluxNormDbdTypeError ==
    /\ pc \notin {"filter", "clip"}
    /\ \E name \in EpochNames, kwargs \in DbdKwargs :
          /\ epochs[name].some
          /\ epochs[name].val.flux_norm # <<>>
          /\ \E bound \in {BindPositional(StarArgs(kwargs))} :
                /\ \E p \in DOMAIN bound : bound[p].kind = "str"
                /\ dbd' = [active |-> TRUE, self |-> name, kwargs |-> kwargs,
                           bound |-> bound]
          /\ wave' = epochs[name].val.wave
          /\ flux' = epochs[name].val.flux_norm
    /\ fluxnorm' = flux'
    /\ indclip' = zeros_like(flux')
    /\ countiter' = 0
    /\ pc' = "TypeError"
    /\ fluxres' = <<>>
    /\ fluxsigma' = <<>>
    /\ indout' = <<>>
    /\ result' = <<>>
    /\ hist' = <<>>
    /\ UNCHANGED <<nsigma, mfarg, gfarg, maskconv, maxiter>>
    /\ UNCHANGED <<mfits, epochs, MrsEpoch_norm_kwargs, given, got>>
    /\ UNCHANGED mrsvars

\* with the defaults of debad the noise kernel (51) is longer than the
\* spectra of the model, so a debad call that starts ends in ValueError
NextDbd ==
    \/ GetOneEpoch
    \/ FluxNormDbd
    \/ FluxNormDbdTypeError
    \/ DebadBroadcastError

SpecDbd == InitEpoch /\ [][NextDbd]_vars

\* get_one_epoch alone, with the calls that raise
NextFits ==
    \/ GetOneEpochAssertionError
    \/ GetOneEpoch

SpecFits == InitEpoch /\ [][NextFits]_vars

-----------------------------------------------------------------------------
(* Properties of debad *)

Running == pc \in {"filter", "clip"}

Rounds == 1..Len(hist)

\* the rounds that went on to interpolate
Passes == {k \in Rounds : hist[k].fluxAfter # <<>>}

Flagged(m) == {i \in DOMAIN m : m[i]}

\* C1: in every round a pixel is flagged exactly when its residual exceeds
\* noise_scale * nsigma[1] (the second element, hi) or lies below
\* -noise_scale * nsigma[0] (the first element, lo).
C1_FlagsHiAboveLoBelow ==
    pc = "clip" =>
        \A i \in DOMAIN indout :
            indout[i] <=>
                \/ fluxres[i] * SumSeq(gk) > fluxsigma[i] * nsigma[2]
                \/ fluxres[i] * SumSeq(gk) < -(fluxsigma[i] * nsigma[1])

\* C2: the cumulative mask after every round contains the mask after the
\* round before and is the union of the undilated flags of the rounds so far.
C2_MaskGrowsAsUnion ==
    /\ \A k \in Rounds :
          /\ Flagged(hist[k].clipBefore) \subseteq Flagged(hist[k].clipAfter)
          /\ Flagged(hist[k].clipAfter) =
                UNION {Flagged(hist[j].out) : j \in 1..k}
          /\ k > 1 => hist[k].clipBefore = hist[k - 1].clipAfter
    /\ hist # <<>> => indclip = hist[Len(hist)].clipAfter

C2_Witness ==
    /\ Len(hist) >= 2
    /\ Flagged(hist[2].out) # {}
    /\ Flagged(hist[1].out) \ Flagged(hist[2].out) # {}

\* C3: a round at whose end the cumulative mask holds more than half of the
\* pixels aborts the call without a result, in the first round and at the
\* iteration cap alike; a call never returns with such a mask, and a mask of
\* exactly half of the pixels does not abort.
C3_GuardAbortsAboveHalf ==
    /\ \A k \in Rounds :
          2 * Cardinality(Flagged(hist[k].clipAfter)) > npix
              => /\ pc = "RuntimeError"
                 /\ k = Len(hist)
                 /\ result = <<>>
    /\ pc = "RuntimeError" => 2 * Cardinality(Flagged(indclip)) > npix
    /\ pc = "returned" => 2 * Cardinality(Flagged(indclip)) <= npix

C3_Witness ==
    /\ pc = "RuntimeError"
    /\ Len(hist) = maxiter
    /\ maxiter >= 2

\* C4: a call is over once maxiter rounds have evaluated their flags, it is
\* over at the first round whose flags are empty, and it interpolates at
\* most maxiter - 1 times.
C4_EndsWithinCap ==
    /\ Len(hist) <= maxiter
    /\ countiter <= maxiter
    /\ Running => Len(hist) < maxiter
    /\ Cardinality(Passes) <= maxiter - 1
    /\ \A k \in Rounds :
          Flagged(hist[k].out) = {} => k = Len(hist) /\ ~Running

C4_Witness ==
    /\ pc = "returned"
    /\ maxiter = MaxMaxiter
    /\ Len(hist) = maxiter
    /\ Flagged(hist[maxiter].out) # {}

\* C5: the guard is the only way a call fails: a call (here with a noise
\* kernel no longer than the array) that does not trip it returns an array
\* of N pixels, also when the dilated mask of a round covers every pixel.
C5_OnlyGuardFails ==
    Len(gk) <= npix =>
        /\ pc # "ValueError"
        /\ pc = "returned" => Len(result) = npix

\* C6: when the first round flags no pixel the call returns after exactly
\* one round, with the input flux at every pixel and an empty mask.
C6_NoOutlierReturnsInput ==
    (hist # <<>> /\ Flagged(hist[1].out) = {}) =>
        /\ pc = "returned"
        /\ Len(hist) = 1
        /\ countiter = 1
        /\ result = flux
        /\ Flagged(indclip) = {}

C6_Witness ==
    /\ pc = "returned"
    /\ Flagged(hist[1].out) = {}
    /\ maxiter > 1
    /\ \E i, j \in DOMAIN flux : flux[i] # flux[j]

\* C7: the mask a continuing round interpolates over holds exactly the
\* pixels within maskconv \div 2 positions of a pixel flagged in that round.
C7_DilationCentredOnNewFlags ==
    \A k \in Rounds :
        hist[k].dilated # <<>> =>
            /\ Len(hist[k].dilated) = npix
            /\ \A i \in 1..npix :
                  hist[k].dilated[i] <=>
                      \E j \in Flagged(hist[k].out) :
                          Abs(i - j) <= maskconv \div 2

C7_Witness ==
    \E k \in Passes :
        /\ Cardinality(Flagged(hist[k].out)) = 1
        /\ Cardinality(Flagged(hist[k].dilated)) = maskconv
        /\ Flagged(hist[k].clipBefore) \ Flagged(hist[k].dilated) # {}

\* C8: no step changes the caller's wave and flux arrays, an interpolation
\* keeps every pixel outside the round's dilated mask, and a pixel that was
\* in no dilated mask is returned with its input value.
C8_CallerArraysOnlyRead ==
    [][/\ wave' = wave
       /\ flux' = flux
       /\ fluxnorm' # fluxnorm =>
             /\ Len(hist') = Len(hist) + 1
             /\ \A i \in 1..npix :
                   ~hist'[Len(hist')].dilated[i] => fluxnorm'[i] = fluxnorm[i]
       /\ pc' = "returned" =>
             \A i \in 1..npix :
                 (\A k \in Passes : ~hist[k].dilated[i]) => result'[i] = flux[i]
      ]_vars

C8_Witness ==
    /\ pc = "returned"
    /\ result # flux
    /\ \E i \in 1..npix : \A k \in Passes : ~hist[k].dilated[i]

\* C9: the flag of a pixel with a negative residual does not depend on the
\* threshold applied to positive residuals, and the flag of a pixel with a
\* positive residual does not depend on the threshold applied to negative
\* residuals.
C9_ThresholdsIndependent ==
    pc = "clip" =>
        \A i \in DOMAIN indout : \A t \in 1..MaxNsigma :
            /\ fluxres[i] < 0 =>
                  (indout[i] <=> IsOutlier(fluxres[i], fluxsigma[i], SumSeq(gk),
                                           <<t, nsigma[2]>>))
            /\ fluxres[i] > 0 =>
                  (indout[i] <=> IsOutlier(fluxres[i], fluxsigma[i], SumSeq(gk),
                                           <<nsigma[1], t>>))

C9_Witness ==
    /\ pc = "clip"
    /\ \E i, j \in DOMAIN indout : \E t \in 1..MaxNsigma :
          /\ fluxres[i] < 0
          /\ fluxres[j] > 0
          /\ indout[i] # IsOutlier(fluxres[i], fluxsigma[i], SumSeq(gk),
                                   <<nsigma[1], t>>)
          /\ indout[j] # IsOutlier(fluxres[j], fluxsigma[j], SumSeq(gk),
                                   <<t, nsigma[2]>>)

\* C14: a call that stops at the iteration cap with outliers flagged in its
\* last round returns the flux as it stood at the start of that round (the
\* input flux in round 1, else the flux the round before interpolated); the
\* flags of the last round are in the cumulative mask but no dilation and
\* no interpolation follows.  With maxiter = 1 the returned flux is the
\* input flux.
C14_CapReturnsFluxOfLastRoundStart ==
    pc = "returned" /\ countiter = maxiter =>
        /\ result = (IF Len(hist) = 1 THEN flux
                     ELSE hist[Len(hist) - 1].fluxAfter)
        /\ Flagged(indout) \subseteq Flagged(indclip)
        /\ hist[Len(hist)].dilated = <<>>
        /\ hist[Len(hist)].fluxAfter = <<>>
        /\ maxiter = 1 => result = flux

C14_Witness ==
    /\ pc = "returned"
    /\ countiter = maxiter
    /\ maxiter > 1
    /\ Flagged(indout) # {}
    /\ result # flux
    /\ Reinterpolate(wave, result, Dilate(indout, maskconv)) # result

\* the nearest pixel left (right) of i outside the mask dil, 0 if none
LeftAnchor(dil, i) ==
    LET c == {j \in DOMAIN dil : j < i /\ ~dil[j]}
    IN  IF c = {} THEN 0 ELSE CHOOSE j \in c : \A l \in c : l <= j

RightAnchor(dil, i) ==
    LET c == {j \in DOMAIN dil : j > i /\ ~dil[j]}
    IN  IF c = {} THEN 0 ELSE CHOOSE j \in c : \A l \in c : j <= l

\* v is the value at wave[i] of the straight line through the pixels l and r
\* of f, rounded down to the flux grid
OnChord(v, f, l, r, i) ==
    LET run  == wave[r] - wave[l]
        line == f[l] * run + (f[r] - f[l]) * (wave[i] - wave[l])
    IN  v * run <= line /\ line < (v + 1) * run

\* C15: in every continuing round each pixel of the dilated mask receives the
\* value of the straight line in wave through its nearest neighbours left
\* and right outside the dilated mask, or the value of the nearest such
\* neighbour when the block touches an end of the array; pixels outside the
\* dilated mask keep their value, and the values a round starts from are
\* those the round before left, replaced pixels included.
C15_ReplacedPixelsLieOnChord ==
    \A k \in Passes :
        LET dil    == hist[k].dilated
            before == hist[k].fluxBefore
            after  == hist[k].fluxAfter
        IN  /\ k > 1 => before = hist[k - 1].fluxAfter
            /\ k = 1 => before = flux
            /\ \A i \in DOMAIN dil :
                  LET l == LeftAnchor(dil, i)
                      r == RightAnchor(dil, i)
                  IN  IF ~dil[i] THEN after[i] = before[i]
                      ELSE IF l = 0 THEN after[i] = before[r]
                      ELSE IF r = 0 THEN after[i] = before[l]
                      ELSE OnChord(after[i], before, l, r, i)

C15_Witness ==
    \E k \in Passes : \E i \in DOMAIN hist[k].dilated :
        LET dil == hist[k].dilated
            l   == LeftAnchor(dil, i)
            r   == RightAnchor(dil, i)
        IN  /\ k > 1
            /\ dil[i]
            /\ l # 0
            /\ r # 0
            /\ hist[k].fluxBefore[l] # hist[k].fluxBefore[r]
            /\ hist[k].fluxAfter[i] # hist[k].fluxBefore[i]
            /\ \E a \in {l, r} :
                  /\ hist[k - 1].dilated[a]
                  /\ hist[k - 1].fluxAfter[a] # hist[k - 1].fluxBefore[a]

\* the pixels at which the arrays a and b differ
Changed(a, b) == {i \in DOMAIN a : a[i] # b[i]}

\* C20: on every successful return of debad at most half of the pixels of
\* the returned flux differ from the input flux.
C20_AtMostHalfRewritten ==
    pc = "returned" => 2 * Cardinality(Changed(result, flux)) <= npix

\* C20 as amended: on every successful return the cumulative mask (the
\* undilated flags of all rounds) holds at most half of the pixels, and every
\* pixel whose returned flux differs from the input lies in the dilated mask
\* of a round that interpolated; the dilation can rewrite more than half.
C20_AtMostHalfFlagged ==
    pc = "returned" =>
        /\ 2 * Cardinality(Flagged(indclip)) <= npix
        /\ Changed(result, flux) \subseteq
               UNION {Flagged(hist[k].dilated) : k \in Passes}

C20_Witness ==
    /\ pc = "returned"
    /\ 2 * Cardinality(Changed(result, flux)) > npix
    /\ Cardinality(Flagged(indclip)) < Cardinality(Changed(result, flux))

-----------------------------------------------------------------------------
(* Properties of MrsSpec *)

SameLength(sp) ==
    /\ Len(sp.flux) = Len(sp.wave)
    /\ Len(sp.ivar) = Len(sp.wave)
    /\ Len(sp.mask) = Len(sp.wave)
    /\ Len(sp.flux_err) = Len(sp.wave)

\* C10: a spectrum built from wave and flux of N pixels has wave, flux, ivar,
\* mask and flux_err of N pixels each, and the spectrum reduce returns has
\* wave, flux, ivar, flux_err and mask of one common length.
C10_ArraysShareLength ==
    /\ ~ms.isempty => SameLength(ms) /\ Len(ms.wave) = ReducePix
    /\ pc = "reduced" => SameLength(msr)

C10_Witness ==
    /\ pc = "reduced"
    /\ rargs.cr
    /\ rargs.npix_cushion > 0
    /\ rargs.wave_new.some
    /\ Len(msr.wave) \notin {0, Len(ms.wave), Len(ms.wave) - 2 * rargs.npix_cushion}
    /\ result # flux

\* the reduce call in progress has handed its arrays to debad
InDebad == rargs.active /\ rargs.cr /\ pc \in {"filter", "clip", "returned"}

\* C11: reduce slices first and runs debad afterwards, so the arrays debad
\* works on are the sliced wave and flux, without the npix_cushion pixels
\* dropped at each end.
C11_DebadSeesSlicedPixelsOnly ==
    InDebad =>
        /\ wave = Cut(ms, rargs, ms.wave)
        /\ flux = FloorAtZero(Cut(ms, rargs, ms.flux))

\* C12: every pixel of the flux of the spectrum reduce returns is >= 0, with
\* cr true or false and any wave_new.
C12_ReducedFluxNonNegative ==
    pc = "reduced" => \A i \in DOMAIN msr.flux : msr.flux[i] >= 0

C12_Witness ==
    /\ pc = "reduced"
    /\ rargs.cr
    /\ rargs.wave_new.some
    /\ msr.flux # <<>>
    /\ \E i \in DOMAIN ms.flux :
          /\ ms.flux[i] < 0
          /\ i > rargs.npix_cushion
          /\ i <= Len(ms.flux) - rargs.npix_cushion
          /\ ms.wave[i] \in {msr.wave[j] : j \in DOMAIN msr.wave}

\* C17: with cr true, indcr of the returned spectrum is 1 exactly at the
\* sliced pixels whose value debad changed and 0 at every pixel debad left
\* unchanged; with cr false indcr is 0 everywhere; with wave_new absent
\* the output mask flags a pixel exactly when the input mask or indcr does.
C17_IndcrMarksDebadChanges ==
    pc = "reduced" =>
        LET mask == Cut(ms, rargs, ms.mask)
        IN  /\ rargs.cr =>
                  \A i \in DOMAIN msr.indcr :
                      msr.indcr[i] = 1 <=>
                          Cut(ms, rargs, result)[i] # Cut(ms, rargs, flux)[i]
            /\ ~rargs.cr => \A i \in DOMAIN msr.indcr : msr.indcr[i] = 0
            /\ ~rargs.wave_new.some =>
                  \A i \in DOMAIN msr.mask :
                      msr.mask[i] = 1 <=> mask[i] > 0 \/ msr.indcr[i] = 1

-----------------------------------------------------------------------------
(* Properties of MrsEpoch and MrsFits *)

\* the names bound to an MrsEpoch
Instances == {name \in EpochNames : epochs[name].some}

\* the settings an MrsEpoch instance reads as self.norm_kwargs
NormKwargsOf(self) == MrsEpoch_norm_kwargs

\* C13: the settings stored in an MrsEpoch, and those its member spectra
\* were last normalized with, are the settings passed to this instance alone
\* (through its constructor and its normalize calls), whatever was passed to
\* other instances.
C13_SettingsArePerInstance ==
    \A name \in Instances :
        /\ NormKwargsOf(epochs[name].val) = given[name]
        /\ \A i \in 1..epochs[name].val.nspec :
              epochs[name].val.speclist[i].norm_kwargs = given[name]

\* the lmjm values of the B-/R- epoch HDUs of a file
EpochLmjms(hdunames) ==
    {hdunames[i].tail : i \in {j \in DOMAIN hdunames :
                                  hdunames[j].head \in {"B-", "R-"}}}

\* C16: get_one_epoch returns an MrsEpoch only for "COADD" and for the
\* integers that are the lmjm of a B-/R- HDU of the file; for any other
\* string and any other integer (0 included) it raises AssertionError.
C16_AbsentLmjmRaises ==
    got.call = "get_one_epoch" =>
        (got.outcome = "MrsEpoch" <=>
            \/ got.lmjm = PyStr("COADD")
            \/ got.lmjm.type = "int" /\ got.lmjm.int \in EpochLmjms(mfits))

RECURSIVE Concatenation(_, _, _)
Concatenation(speclist, attr, n) ==
    IF n = 0 THEN <<>>
    ELSE Concatenation(speclist, attr, n - 1)
            \o (IF Len(speclist[n].wave) = 0 THEN <<>> ELSE speclist[n][attr])

RECURSIVE PixelCount(_, _)
PixelCount(speclist, n) ==
    IF n = 0 THEN 0 ELSE PixelCount(speclist, n - 1) + Len(speclist[n].wave)

\* each combined array is the concatenation of the members' arrays
CombinedIsConcatenation ==
    \A name \in Instances :
        LET me == epochs[name].val
        IN  /\ \A attr \in {"wave", "flux", "ivar", "mask", "flux_err"} :
                  /\ me[attr] = Concatenation(me.speclist, attr, me.nspec)
                  /\ Len(me[attr]) = PixelCount(me.speclist, me.nspec)
            /\ \A i \in 1..me.nspec :
                  me.speclist[i].isempty <=> Len(me.speclist[i].wave) = 0

\* C19: after construction and after every normalize call each combined
\* array of an epoch (wave, flux, ivar, mask, flux_err) is the concatenation,
\* in speclist order, of the arrays of the non-empty member spectra, its
\* length the sum of the members' pixel counts; a normalize call on an
\* epoch leaves these combined arrays as they were (no growth by repeated
\* appending).
C19_CombinedIsConcatenation ==
    [][/\ CombinedIsConcatenation'
       /\ got'.call = "normalize" =>
              \A attr \in {"wave", "flux", "ivar", "mask", "flux_err"} :
                  epochs'[got'.self].val[attr] = epochs[got'.self].val[attr]]_vars

C19_Witness ==
    /\ got.call = "normalize"
    /\ \E i, j \in 1..epochs[got.self].val.nspec :
          /\ epochs[got.self].val.speclist[i].isempty
          /\ ~epochs[got.self].val.speclist[j].isempty
    /\ epochs[got.self].val.flux_norm # <<>>

\* debad(wave, fluxnorm, **kwargs): the parameters as Python binds them
BindKeywords(kwargs) ==
    [p \in {DebadParams[i] : i \in DOMAIN DebadParams} |->
        IF \E i \in DOMAIN kwargs : kwargs[i][1] = p
        THEN kwargs[CHOOSE i \in DOMAIN kwargs : kwargs[i][1] = p][2]
        ELSE DebadDefaults[p]]

\* C18: flux_norm_dbd(**k) runs debad on self.wave and self.flux_norm with
\* the parameters debad(self.wave, self.flux_norm, **k) runs with, and so
\* ends as that call ends; no parameter of debad is bound to a string.
C18_ForwardsKeywords ==
    dbd.active =>
        /\ dbd.bound = BindKeywords(dbd.kwargs)
        /\ wave = epochs[dbd.self].val.wave
        /\ flux = epochs[dbd.self].val.flux_norm
        /\ pc # "TypeError"

=============================================================================
